---- MODULE Spec2Model ----
(***************************************************************************)
(* Model of the Konverzky -> Fiken invoice handler.                        *)
(*                                                                         *)
(*   src/KonverzkyOrderConsumer.js  the order webhook handler: validates   *)
(*       the payload and upserts the order record (Get, then Put).         *)
(*   src/unnamed/part_000           the Stripe webhook handler: looks the  *)
(*       order up, queues a retry on a miss, otherwise creates and sends   *)
(*       the invoice in Fiken; invoked directly or with SQS records.       *)
(*                                                                         *)
(* Optional values are sequences of length 0 or 1; a missing or empty      *)
(* string field is "" (JavaScript treats both as falsy).                   *)
(***************************************************************************)
EXTENDS Naturals, Sequences, FiniteSets, Bags, TLC

VARIABLES
    config,       \* the environment variables that are set
    store,        \* the DynamoDB table: order_id -> record
    ow,           \* per order-handler invocation: its position and locals
    queue,        \* the SQS retry queue: a bag of message bodies
    contacts,     \* Fiken: the memberNumberStrings that have a contact
    invoices,     \* Fiken: the invoice payloads created, in order
    sent,         \* Fiken: the invoice ids a receipt was sent for
    notified,     \* SNS: number of manual-handling notifications published
    last,         \* the last finished handler invocation and what it did
    hist          \* history: what has been delivered so far

vars == <<config, store, ow, queue, contacts, invoices, sent, notified, last, hist>>

----------------------------------------------------------------------------
(* Bounds of the model *)

MaxUpserts == 3
    \* order webhooks delivered
MaxOrders == 1
    \* order webhooks delivered in the whole-system specification
MaxInvocations == 3
    \* invocations of the Stripe handler, direct or with SQS records
MaxAttempts == 2
    \* the attempt ceiling the retry-bound claim speaks of

Workers == {1, 2}      \* concurrent invocations of the order handler

----------------------------------------------------------------------------
(* Values *)

Some(x) == <<x>>
None == <<>>

\* order.id as it arrives: a number or a string; v is its decimal spelling
RawOrderIds ==
    { [t |-> "number", v |-> "1"], [t |-> "string", v |-> "1"],
      [t |-> "string", v |-> "2"] }

\* Number.prototype.toString / String.prototype.toString
toString(raw) == raw.v

OrderKeys == { toString(r) : r \in RawOrderIds }

allowedWebhookTypes == <<"upsell_paid", "product_paid", "order_paid">>

SeqToSet(s) == { s[i] : i \in DOMAIN s }

WebhookTypes == SeqToSet(allowedWebhookTypes) \cup {"", "order_refunded"}

\* items as they arrive (extra fields are dropped by the handler)
RawItem(name, id, q, p) ==
    [name |-> name, id |-> id, quantity |-> q, unit_price |-> p, vat |-> "0",
     sku |-> "x"]

RawItemLists ==
    { << RawItem("Widget", "w1", 2, "9.99") >>,
      << RawItem("Widget", "w1", 1, "9.99"), RawItem("Gadget", "g1", 1, "19.99") >> }

\* KonverzkyOrderConsumer.js:55-61
ParseItem(item) ==
    [name |-> item.name, id |-> item.id, quantity |-> item.quantity,
     unit_price |-> item.unit_price, vat |-> item.vat]

ParseItems(items) == [i \in DOMAIN items |-> ParseItem(items[i])]


\* a body of the order webhook
Payload(json, type, hasOrder, id, isArray, items) ==
    [validJson |-> json, webhook_type |-> type, hasOrder |-> hasOrder, id |-> id,
     itemsIsArray |-> isArray, items |-> items]

ItemsA == << RawItem("Widget", "w1", 2, "9.99") >>

\* the bodies the order handler rejects or ignores
OtherPayloads ==
    { Payload(FALSE, "", FALSE, None, FALSE, <<>>),
      Payload(TRUE, "", TRUE, Some([t |-> "string", v |-> "1"]), TRUE, ItemsA),
      Payload(TRUE, "order_refunded", TRUE, Some([t |-> "string", v |-> "1"]), TRUE, ItemsA),
      Payload(TRUE, "order_paid", FALSE, None, FALSE, <<>>),
      Payload(TRUE, "order_paid", TRUE, None, TRUE, ItemsA),
      Payload(TRUE, "order_paid", TRUE, Some([t |-> "string", v |-> "1"]), FALSE, <<>>) }

\* the bodies that pass validation
ValidPayloads ==
    { Payload(TRUE, type, TRUE, Some(id), TRUE, items) :
        type \in SeqToSet(allowedWebhookTypes), id \in RawOrderIds,
        items \in RawItemLists }

OrderPayloads == ValidPayloads \cup OtherPayloads

----------------------------------------------------------------------------
(* Order handler: src/KonverzkyOrderConsumer.js *)

RECURSIVE Dedup(_)
\* Array.from(new Set(s)): first occurrences, in order
Dedup(s) ==
    IF s = <<>> THEN <<>>
    ELSE LET front == Dedup(SubSeq(s, 1, Len(s) - 1))
             x == s[Len(s)]
         IN IF x \in SeqToSet(front) THEN front ELSE Append(front, x)

\* a merge that keeps only the incoming tag
MergeTypesOverwrite(existingOrder, tag) == <<tag>>

\* a merge that appends without set semantics
MergeTypesAppend(existingOrder, tag) ==
    IF existingOrder # None
    THEN Append(existingOrder[1].webhook_types, tag)
    ELSE <<tag>>

\* webhook_types of the record to write
MergeTypes(existingOrder, tag) ==
    IF existingOrder # None
    THEN Dedup(Append(existingOrder[1].webhook_types, tag))
    ELSE <<tag>>

\* a record that keeps the items already stored
BuildRecordKeepItems(orderId, parsedItems, existingOrder, tag) ==
    [order_id |-> orderId,
     items |-> IF existingOrder # None THEN existingOrder[1].items ELSE parsedItems,
     webhook_types |-> MergeTypes(existingOrder, tag)]

\* the record to upsert (last_updated is a wall-clock stamp nothing reads: left out)
BuildRecord(orderId, parsedItems, existingOrder, tag) ==
    [order_id |-> orderId,
     items |-> parsedItems,
     webhook_types |-> MergeTypes(existingOrder, tag)]

\* GetCommand: result.Item
GetItem(key) == IF key \in DOMAIN store THEN Some(store[key]) ELSE None

\* PutCommand
PutItem(record) ==
    [k \in DOMAIN store \cup {record.order_id} |->
        IF k = record.order_id THEN record ELSE store[k]]

Idle == [pc |-> "idle"]

NoLast ==
    [handler |-> "none", via |-> "none", statusCode |-> 0, recs |-> <<>>,
     order |-> <<>>]

\* what a finished invocation of the order handler did; prior is the successful
\* upsert of the same key before it, if any: its items, its tag, the record it stored
OrderDone(p, status, reads, writes, key, prior) ==
    [handler |-> "order", via |-> "direct", statusCode |-> status, recs |-> <<>>,
     order |-> << [validJson |-> p.validJson, webhook_type |-> p.webhook_type,
                   hasOrder |-> p.hasOrder, hasId |-> p.id # None,
                   itemsIsArray |-> p.itemsIsArray,
                   items |-> ParseItems(p.items),
                   reads |-> reads, writes |-> writes,
                   key |-> key, prior |-> prior] >>]

\* a validation that does not look at order.items
OrderValidationNoItemsCheck(p) ==
    IF ~p.validJson THEN 400
    ELSE IF p.webhook_type = "" \/ p.webhook_type \notin SeqToSet(allowedWebhookTypes)
    THEN 200
    ELSE IF ~p.hasOrder \/ p.id = None THEN 400
    ELSE 0

\* the checks before the store is touched: the status returned, 0 to go on
OrderValidation(p) ==
    IF ~p.validJson THEN 400
    ELSE IF p.webhook_type = "" \/ p.webhook_type \notin SeqToSet(allowedWebhookTypes)
    THEN 200
    ELSE IF ~p.hasOrder \/ p.id = None THEN 400
    ELSE IF ~p.itemsIsArray THEN 400
    ELSE 0

\* the invocations of the order handler for key k between their Get and their Put
InFlight(k) == { w \in Workers : ow[w].pc = "put" /\ ow[w].orderId = k }

\* invocations are anonymous: the next one takes the least idle slot
FreeSlot(w) == ow[w].pc = "idle" /\ \A v \in Workers : v < w => ow[v].pc # "idle"

\* parse, validate, Get
OrderReceive(w, p, getOk) ==
    /\ FreeSlot(w)
    /\ hist.upserts < MaxUpserts
    /\ "DDB_TABLE" \notin config => ~getOk      \* TableName undefined: rejected
    /\ LET v == OrderValidation(p) IN
       IF v # 0
       THEN /\ last' = OrderDone(p, v, 0, 0, "", None)
            /\ hist' = [hist EXCEPT !.upserts = @ + 1]
            /\ UNCHANGED <<ow>>
       ELSE LET orderId == toString(p.id[1]) IN
            IF ~getOk
            THEN /\ last' = OrderDone(p, 500, 1, 0, orderId, None)
                 /\ hist' = [hist EXCEPT !.upserts = @ + 1]
                 /\ UNCHANGED <<ow>>
            ELSE /\ ow' = [ow EXCEPT ![w] =
                        [pc |-> "put", tag |-> p.webhook_type, orderId |-> orderId,
                         parsedItems |-> ParseItems(p.items),
                         existingOrder |-> GetItem(orderId)]]
                 /\ hist' = [hist EXCEPT
                        !.upserts = @ + 1,
                        !.overlapped[orderId] = @ \/ InFlight(orderId) # {}]
                 /\ UNCHANGED <<last>>
    /\ UNCHANGED <<config, store, queue, contacts, invoices, sent, notified>>

\* compare, build the record, Put, respond
OrderPut(w, putOk) ==
    /\ ow[w].pc = "put"
    /\ "DDB_TABLE" \notin config => ~putOk
    /\ LET l == ow[w]
           tag == l.tag
           p == Payload(TRUE, tag, TRUE, Some([t |-> "string", v |-> l.orderId]),
                        TRUE, l.parsedItems)
           record == BuildRecord(l.orderId, l.parsedItems, l.existingOrder, tag)
           this == [items |-> l.parsedItems, tag |-> tag, stored |-> record]
       IN  IF putOk
           THEN /\ store' = PutItem(record)
                /\ last' = OrderDone(p, 200, 1, 1, l.orderId,
                                     hist.prevUpsert[l.orderId])
                /\ hist' = [hist EXCEPT
                       !.delivered[l.orderId] = @ \cup {tag},
                       !.prevUpsert[l.orderId] = Some(this)]
           ELSE /\ last' = OrderDone(p, 500, 1, 1, l.orderId, None)
                /\ UNCHANGED <<store, hist>>
    /\ ow' = [ow EXCEPT ![w] = Idle]
    /\ UNCHANGED <<config, queue, contacts, invoices, sent, notified>>

----------------------------------------------------------------------------
(* Stripe handler: src/unnamed/part_000 *)

ConfigVars ==
    { "DDB_TABLE", "STRIPE_RETRY_QUEUE_URL", "MANUAL_ORDER_SNS_TOPIC",
      "FIKEN_BANK_ACCOUNT_CODE", "FIKEN_PAYMENT_ACCOUNT", "FIKEN_COMPANY_SLUG",
      "FIKEN_API_TOKEN", "STRIPE_API_KEY" }

\* a Stripe event: type and the fields of data.object the handler reads
StripeEvent(type, hasCharge, currency, customer, orderNumber, receiptEmail) ==
    [type |-> type, hasCharge |-> hasCharge, currency |-> currency,
     customer |-> customer, order_number |-> orderNumber,
     receipt_email |-> receiptEmail]

\* charge.succeeded events with currency, customer and order_number
JoinableEvents ==
    { StripeEvent("charge.succeeded", TRUE, "usd", "cus_1", "1", "buyer@example.com"),
      StripeEvent("charge.succeeded", TRUE, "usd", "cus_1", "2", "") }

\* events lacking one of them, or of another type
OtherEvents ==
    { StripeEvent("charge.succeeded", TRUE, "usd", "cus_1", "", ""),
      StripeEvent("charge.succeeded", TRUE, "usd", "", "", ""),
      StripeEvent("charge.succeeded", TRUE, "usd", "", "1", ""),
      StripeEvent("charge.succeeded", TRUE, "", "cus_1", "1", ""),
      StripeEvent("charge.succeeded", FALSE, "", "", "", ""),
      StripeEvent("charge.failed", TRUE, "usd", "cus_1", "1", ""),
      StripeEvent("charge.failed", TRUE, "", "cus_1", "1", "") }

StripeEvents == JoinableEvents \cup OtherEvents

\* String.prototype.toUpperCase on the strings of the model
toUpperCase(str) ==
    CASE str = "usd" -> "USD"
      [] str = "no" -> "NO"
      [] str = "Norge" -> "NORGE"
      [] OTHER -> str

\* the customer object Stripe returns (address.country, address.state)
Profile(email, name, country, state) ==
    [email |-> email, name |-> name, country |-> country, state |-> state]

Profiles ==
    { Profile("kari@example.no", "Kari", "no", ""),
      Profile("", "", "SE", ""),
      Profile("ola@example.no", "", "", "Norge"),
      Profile("sven@example.se", "Sven", "", "") }

\* the calls that can fail, and how
FailPoints ==
    { "ddb.get", "sqs.send", "sns.publish", "stripe.getCustomer",
      "fiken.getContacts", "fiken.createContact", "fiken.createContact.noLocation",
      "fiken.createInvoice", "fiken.createInvoice.noLocation", "fiken.sendInvoice" }

\* what the outside world answers during one processing
Envs ==
    { [fail |-> "none", profile |-> p] : p \in Profiles }
    \cup { [fail |-> f, profile |-> Profile("kari@example.no", "Kari", "no", "")] :
             f \in FailPoints }

\* the service a failure point belongs to
OpOf(fail) ==
    CASE fail = "fiken.createContact.noLocation" -> "fiken.createContact"
      [] fail = "fiken.createInvoice.noLocation" -> "fiken.createInvoice"
      [] OTHER -> fail

\* one call to a service. result: "ok"; "error", a failure status or a rejected
\* request, nothing done there; "noLocation", done there but answered without the
\* Location header
Call(op, result, arg) == [op |-> op, result |-> result, arg |-> arg]

\* the answer the service gives to call op
Answer(env, op) ==
    IF env.fail = op THEN "error"
    ELSE IF env.fail \in {"fiken.createContact.noLocation",
                          "fiken.createInvoice.noLocation"} /\ OpOf(env.fail) = op
    THEN "noLocation"
    ELSE "ok"

NoArg == [none |-> TRUE]

\* item.unit_price * 100 in IEEE 754 double arithmetic, as JSON prints it
Times100(price) ==
    CASE price = "9.99" -> "999"
      [] price = "19.99" -> "1998.9999999999998"

NorwegianNames == {"NO", "NORWAY", "NORGE", "NOREG", "NOR"}

InvoiceLine(item, currency, isNorwegian) ==
    [currency |-> currency,
     vatType |-> IF isNorwegian THEN "HIGH" ELSE "EXEMPT_IMPORT_EXPORT",
     incomeAccount |-> IF isNorwegian THEN 3010 ELSE 3110,
     productName |-> item.name,
     description |-> item.name,
     comment |-> "#" \o item.id,
     unitPrice |-> Times100(item.unit_price),
     quantity |-> item.quantity]

\* the invoice payload (issueDate and dueDate are wall-clock dates: left out);
\* a contact's id in Fiken is identified with its memberNumberString
InvoicePayload(orderRecord, currency, isNorwegian, contactId, orderId) ==
    [lines |-> [i \in DOMAIN orderRecord.items |->
                  InvoiceLine(orderRecord.items[i], currency, isNorwegian)],
     customerId |-> contactId,
     currency |-> toUpperCase(currency),
     norwegianText |-> isNorwegian,
     yourReference |-> orderId]

\* the body of the retry message (timestamp is a wall-clock stamp: left out)
RetryPayload(orderId, stripeEvent) ==
    [order_number |-> orderId, stripeEvent |-> stripeEvent]

\* an error that is swallowed and answered as a success
ThrewSilently(error, calls) ==
    [statusCode |-> 200, threw |-> FALSE, error |-> error, calls |-> calls]

\* processStripeEvent throws: the handler answers 500
Threw(error, calls) ==
    [statusCode |-> 500, threw |-> TRUE, error |-> error, calls |-> calls]

\* processStripeEvent returns
Returned(status, calls) ==
    [statusCode |-> status, threw |-> FALSE, error |-> "", calls |-> calls]

\* lines 88-95: no metadata.order_number: notify, then succeed
MetadataMissing(charge, env) ==
    LET publish == Call("sns.publish", Answer(env, "sns.publish"), NoArg)
    IN  IF publish.result = "ok" THEN Returned(200, <<publish>>)
        ELSE Threw("sns", <<publish>>)

\* a miss that queues the retry and publishes a notification as well
OrderMissingNotifies(stripeEvent, orderId, env, soFar) ==
    Returned(200, soFar \o << Call("sqs.send", "ok", RetryPayload(orderId, stripeEvent)),
                              Call("sns.publish", "ok", NoArg) >>)

\* a miss that succeeds without queueing anything
OrderMissingDropped(stripeEvent, orderId, env, soFar) == Returned(200, soFar)

\* lines 116-126: the order is not in the table: queue a retry, then succeed
OrderMissing(stripeEvent, orderId, env, soFar) ==
    LET send == Call("sqs.send", Answer(env, "sqs.send"),
                     RetryPayload(orderId, stripeEvent))
    IN  IF send.result = "ok" THEN Returned(200, Append(soFar, send))
        ELSE Threw("sqs", Append(soFar, send))

\* an invoicing that sends the receipt before it creates the invoice
InvoiceOrderSendsFirst(charge, currency, orderId, orderRecord, env, soFar) ==
    Returned(200,
        soFar \o
        << Call("stripe.getCustomer", "ok", NoArg),
           Call("fiken.getContacts", "ok", NoArg),
           Call("fiken.sendInvoice", "ok",
                [recipientEmail |-> env.profile.email,
                 recipientName |-> env.profile.name]),
           Call("fiken.createInvoice", "ok",
                InvoicePayload(orderRecord, currency, FALSE, charge.customer, orderId)) >>)

\* lines 129-306: the order was found
InvoiceOrder(charge, currency, orderId, orderRecord, env, soFar) ==
    LET customerId == charge.customer
        fetch == Call("stripe.getCustomer", Answer(env, "stripe.getCustomer"), NoArg)
        c1 == Append(soFar, fetch)
        cust == env.profile
        customerEmail == IF cust.email # "" THEN cust.email ELSE charge.receipt_email
        customerName == IF cust.name # "" THEN cust.name ELSE customerEmail
        customerCountry == IF cust.country # "" THEN cust.country ELSE cust.state
        isNorwegian == toUpperCase(customerCountry) \in NorwegianNames
        getContacts == Call("fiken.getContacts", Answer(env, "fiken.getContacts"), NoArg)
        c2 == Append(c1, getContacts)
        found == customerId \in contacts
        createContact ==
            Call("fiken.createContact", Answer(env, "fiken.createContact"),
                 [memberNumberString |-> customerId, email |-> customerEmail,
                  language |-> IF isNorwegian THEN "Norwegian" ELSE "English"])
        c3 == IF found THEN c2 ELSE Append(c2, createContact)
        createInvoice ==
            Call("fiken.createInvoice", Answer(env, "fiken.createInvoice"),
                 InvoicePayload(orderRecord, currency, isNorwegian, customerId, orderId))
        c4 == Append(c3, createInvoice)
        sendInvoice ==
            Call("fiken.sendInvoice", Answer(env, "fiken.sendInvoice"),
                 [recipientEmail |-> customerEmail, recipientName |-> customerName])
        c5 == Append(c4, sendInvoice)
    IN  IF fetch.result # "ok" THEN Threw("stripe", c1)
        ELSE IF customerEmail = "" THEN Threw("email", c1)
        ELSE IF customerCountry = "" THEN Threw("country", c1)
        ELSE IF getContacts.result # "ok" THEN Threw("fiken", c2)
        ELSE IF ~found /\ createContact.result # "ok" THEN Threw("fiken", c3)
        ELSE IF createInvoice.result # "ok" THEN Threw("fiken", c4)
        ELSE IF sendInvoice.result # "ok" THEN Threw("fiken", c5)
        ELSE Returned(200, c5)

\* lines 62-127, then InvoiceOrder
processStripeEvent(stripeEvent, env) ==
    LET charge == stripeEvent
        currency == IF charge.currency # "" THEN toUpperCase(charge.currency) ELSE ""
        orderId == charge.order_number
        get == Call("ddb.get", Answer(env, "ddb.get"), [order_id |-> orderId])
        orderRecord == GetItem(orderId)
    IN  IF config # ConfigVars THEN Threw("config", <<>>)
        ELSE IF ~stripeEvent.hasCharge THEN Threw("charge", <<>>)
        ELSE IF currency = "" THEN Threw("currency", <<>>)
        ELSE IF stripeEvent.type # "charge.succeeded" THEN Returned(200, <<>>)
        ELSE IF charge.order_number = "" THEN MetadataMissing(charge, env)
        ELSE IF charge.customer = "" THEN Threw("customer", <<>>)
        ELSE IF get.result # "ok" THEN Threw("store", <<get>>)
        ELSE IF orderRecord = None
        THEN OrderMissing(stripeEvent, orderId, env, <<get>>)
        ELSE InvoiceOrder(charge, currency, orderId, orderRecord[1], env, <<get>>)

\* what the calls of one processing do to the services, in order
RECURSIVE ApplyCalls(_, _)
ApplyCalls(calls, w) ==
    IF calls = <<>> THEN w
    ELSE LET c == Head(calls)
             w1 == IF c.result = "error" THEN w
                   ELSE CASE c.op = "sqs.send" ->
                               [w EXCEPT !.queue = @ (+) SetToBag({c.arg})]
                          [] c.op = "sns.publish" ->
                               [w EXCEPT !.notified = @ + 1]
                          [] c.op = "fiken.createContact" ->
                               [w EXCEPT !.contacts = @ \cup {c.arg.memberNumberString}]
                          [] c.op = "fiken.createInvoice" ->
                               [w EXCEPT !.invoices = Append(@, c.arg)]
                          [] c.op = "fiken.sendInvoice" ->
                               [w EXCEPT !.sent = @ \cup {Len(w.invoices)}]
                          [] OTHER -> w
         IN ApplyCalls(Tail(calls), w1)

World == [queue |-> queue, notified |-> notified, contacts |-> contacts,
          invoices |-> invoices, sent |-> sent]

SetWorld(w) ==
    /\ queue' = w.queue
    /\ notified' = w.notified
    /\ contacts' = w.contacts
    /\ invoices' = w.invoices
    /\ sent' = w.sent

\* the order an event refers to is not in the table
OrderAbsent(ev) == ev.order_number # "" /\ ev.order_number \notin DOMAIN store

\* what one processing did: r is its result, n the number of its calls performed
Rec(ev, r, n) ==
    [event |-> ev, orderAbsent |-> OrderAbsent(ev),
     finished |-> n = Len(r.calls),
     statusCode |-> IF n = Len(r.calls) THEN r.statusCode ELSE 0,
     error |-> IF n = Len(r.calls) THEN r.error ELSE "",
     calls |-> SubSeq(r.calls, 1, n)]

StripeDone(via, status, recs) ==
    [handler |-> "stripe", via |-> via, statusCode |-> status, recs |-> recs,
     order |-> <<>>]

\* the request bodies of a direct invocation
DirectBodies ==
    { [validJson |-> TRUE, stripeEvent |-> e] : e \in StripeEvents }
    \cup { [validJson |-> FALSE,
            stripeEvent |-> StripeEvent("charge.succeeded", FALSE, "", "", "", "")] }

Queued(r) ==
    \E i \in DOMAIN r.calls : r.calls[i].op = "sqs.send" /\ r.calls[i].result = "ok"

AllFine == [fail |-> "none", profile |-> Profile("kari@example.no", "Kari", "no", "")]

\* the answers that matter to the processing of ev: those of the calls it can reach
EnvsFor(ev) ==
    LET calls == processStripeEvent(ev, AllFine).calls
        ops == { calls[i].op : i \in DOMAIN calls }
    IN  { env \in Envs :
            IF env.fail = "none"
            THEN env = AllFine \/ "stripe.getCustomer" \in ops
            ELSE OpOf(env.fail) \in ops }

\* the ways one processing of an event can go, over what the services answer
Outcomes(ev) == { processStripeEvent(ev, env) : env \in EnvsFor(ev) }

\* a direct invocation that removes the order record it was about
HandleDirectDeletes(body, result) ==
    /\ hist.invocations < MaxInvocations
    /\ store' = [k \in DOMAIN store \ {body.stripeEvent.order_number} |-> store[k]]
    /\ last' = StripeDone("direct", result.statusCode, <<>>)
    /\ hist' = [hist EXCEPT !.invocations = @ + 1]
    /\ UNCHANGED <<config, ow, queue, contacts, invoices, sent, notified>>

\* handler, lines 326-337: a direct invocation with event.body
HandleDirect(body, result) ==
    /\ hist.invocations < MaxInvocations
    /\ LET ev == body.stripeEvent
           r == IF body.validJson THEN result ELSE Threw("json", <<>>)
           k == ev.order_number
       IN  /\ \E w \in {ApplyCalls(r.calls, World)} : SetWorld(w)
           /\ last' = StripeDone("direct", r.statusCode,
                                 IF body.validJson THEN <<Rec(ev, r, Len(r.calls))>>
                                 ELSE <<>>)
           /\ hist' = [hist EXCEPT
                  !.invocations = @ + 1,
                  !.directFor = IF ev \in JoinableEvents
                                THEN [@ EXCEPT ![k] = @ + 1] ELSE @,
                  !.missed = IF ev \in JoinableEvents /\ Queued(r)
                             THEN [@ EXCEPT ![k] = TRUE] ELSE @]
    /\ UNCHANGED <<config, store, ow>>

\* the batches of one or two messages SQS can hand over
Batches ==
    { <<m>> : m \in BagToSet(queue) }
    \cup UNION { { <<m1, m2>> : m2 \in { m \in BagToSet(queue) :
                                            m # m1 \/ CopiesIn(m, queue) > 1 } } :
                  m1 \in BagToSet(queue) }

RECURSIVE BatchBag(_)
BatchBag(batch) ==
    IF batch = <<>> THEN EmptyBag ELSE SetToBag({Head(batch)}) (+) BatchBag(Tail(batch))

RECURSIVE ApplyRecords(_, _, _)
\* the calls performed for each record of a batch, record after record
ApplyRecords(results, cut, w) ==
    IF results = <<>> THEN w
    ELSE ApplyRecords(Tail(results), Tail(cut),
                      ApplyCalls(SubSeq(Head(results).calls, 1, Head(cut)), w))

\* how far each processing gets: Promise.all settles with the first rejection and
\* the handler returns while the other processings are still under way
Cuts(results) ==
    LET full == [i \in DOMAIN results |-> Len(results[i].calls)]
        throwers == { i \in DOMAIN results : results[i].threw }
    IN  IF throwers = {} THEN {full}
        ELSE UNION { { c \in [DOMAIN results -> 0..6] :
                         /\ c[f] = full[f]
                         /\ \A i \in DOMAIN results : c[i] <= full[i] } :
                     f \in throwers }

\* the ways the processings of a batch can go
BatchOutcomes(batch) ==
    { results \in [DOMAIN batch -> UNION { Outcomes(batch[i].stripeEvent) :
                                             i \in DOMAIN batch }] :
        \A i \in DOMAIN batch : results[i] \in Outcomes(batch[i].stripeEvent) }

\* handler, lines 314-325 and 331-337: an invocation with SQS records
HandleRecords(batch, results, redeliver) ==
    /\ hist.invocations < MaxInvocations
    /\ LET threw == \E i \in DOMAIN results : results[i].threw
           taken == IF redeliver THEN BatchBag(Tail(batch)) ELSE BatchBag(batch)
           absent == { i \in DOMAIN batch : OrderAbsent(batch[i].stripeEvent) }
       IN  \E cut \in Cuts(results) :
             /\ \E w \in {ApplyRecords(results, cut,
                                        [World EXCEPT !.queue = @ (-) taken])} :
                   SetWorld(w)
             /\ last' = StripeDone("sqs", IF threw THEN 500 ELSE 200,
                           [i \in DOMAIN batch |->
                              Rec(batch[i].stripeEvent, results[i], cut[i])])
             /\ hist' = [hist EXCEPT
                    !.invocations = @ + 1,
                    !.duplicated = @ \/ redeliver,
                    !.retries = [e \in DOMAIN @ |->
                        @[e] + Cardinality({ i \in absent : batch[i].stripeEvent = e })]]
    /\ UNCHANGED <<config, store, ow>>

----------------------------------------------------------------------------

\* nothing stored, queued or sent, no invocation under way
InitServices ==
    /\ store = << >>
    /\ ow = [w \in Workers |-> Idle]
    /\ queue = EmptyBag
    /\ contacts = {}
    /\ invoices = <<>>
    /\ sent = {}
    /\ notified = 0
    /\ last = NoLast
    /\ hist = [upserts |-> 0,
               overlapped |-> [k \in OrderKeys |-> FALSE],
               delivered |-> [k \in OrderKeys |-> {}],
               prevUpsert |-> [k \in OrderKeys |-> None],
               invocations |-> 0,
               directFor |-> [k \in OrderKeys |-> 0],
               missed |-> [k \in OrderKeys |-> FALSE],
               duplicated |-> FALSE,
               retries |-> [e \in JoinableEvents |-> 0]]

\* every environment variable is set
Init == config = ConfigVars /\ InitServices

\* the deployments: every variable set, or all but one
Configs == {ConfigVars} \cup { ConfigVars \ {v} : v \in ConfigVars }

ConfigInit == config \in Configs /\ InitServices

\* the order handler alone, with overlapping invocations
OrderNext ==
    \/ \E w \in Workers, p \in OrderPayloads, getOk \in BOOLEAN : OrderReceive(w, p, getOk)
    \/ \E w \in Workers, putOk \in BOOLEAN : OrderPut(w, putOk)

OrderSpec == Init /\ [][OrderNext]_vars

\* the order webhooks of the whole-system specification
JoinPayloads ==
    { Payload(TRUE, "order_paid", TRUE, Some(id), TRUE, ItemsA) : id \in RawOrderIds }

Next ==
    \/ /\ hist.upserts < MaxOrders
       /\ \E p \in JoinPayloads, getOk \in BOOLEAN : OrderReceive(1, p, getOk)
    \/ \E putOk \in BOOLEAN : OrderPut(1, putOk)
    \/ /\ hist.invocations < MaxInvocations
       /\ \E body \in DirectBodies :
            \E result \in Outcomes(body.stripeEvent) : HandleDirect(body, result)
    \/ /\ hist.invocations < MaxInvocations
       /\ \E batch \in { b \in Batches : Len(b) = 1 }, redeliver \in BOOLEAN :
            \E results \in BatchOutcomes(batch) :
               HandleRecords(batch, results, redeliver)

Spec == Init /\ [][Next]_vars

\* the whole system under each deployment
ConfigSpec == ConfigInit /\ [][Next]_vars

\* the order webhooks of the invoicing specification: every item list
ItemPayloads ==
    { Payload(TRUE, "order_paid", TRUE, Some([t |-> "string", v |-> "1"]), TRUE, items) :
        items \in RawItemLists }

\* orders stored one after the other, and payments for them delivered directly
InvoiceNext ==
    \/ /\ hist.upserts < MaxOrders
       /\ \E p \in ItemPayloads, getOk \in BOOLEAN : OrderReceive(1, p, getOk)
    \/ \E putOk \in BOOLEAN : OrderPut(1, putOk)
    \/ /\ hist.invocations < MaxInvocations
       /\ \E body \in { b \in DirectBodies : b.stripeEvent \in JoinableEvents } :
            \E result \in Outcomes(body.stripeEvent) : HandleDirect(body, result)

InvoiceSpec == Init /\ [][InvoiceNext]_vars

\* payments delivered directly, and the retry messages delivered one or two at a time
BatchNext ==
    \/ /\ hist.upserts < MaxOrders
       /\ \E p \in JoinPayloads, getOk \in BOOLEAN : OrderReceive(1, p, getOk)
    \/ \E putOk \in BOOLEAN : OrderPut(1, putOk)
    \/ /\ hist.invocations < MaxInvocations
       /\ \E body \in { b \in DirectBodies : b.stripeEvent \in JoinableEvents } :
            \E result \in Outcomes(body.stripeEvent) : HandleDirect(body, result)
    \/ /\ hist.invocations < MaxInvocations
       /\ \E batch \in Batches, redeliver \in BOOLEAN :
            \E results \in BatchOutcomes(batch) :
               HandleRecords(batch, results, redeliver)

BatchSpec == Init /\ [][BatchNext]_vars

----------------------------------------------------------------------------
(* Claims *)

\* the invoices created in Fiken with order k as yourReference
InvoicesFor(k) == { i \in DOMAIN invoices : invoices[i].yourReference = k }

\* the retry messages for order k waiting in the queue
EnvelopesFor(k) == { m \in BagToSet(queue) : m.order_number = k }

\* the calls of a processing to service op that were answered "ok"
Made(rec, op) ==
    { i \in DOMAIN rec.calls : rec.calls[i].op = op /\ rec.calls[i].result = "ok" }

\* the calls of a processing that took effect at the service
Effected(rec, op) ==
    { i \in DOMAIN rec.calls : rec.calls[i].op = op /\ rec.calls[i].result # "error" }

\* the processings of the last invocation of the Stripe handler
LastRecs == IF last.handler = "stripe" THEN SeqToSet(last.recs) ELSE {}

\* a PaymentConfirmed payload: charge.succeeded with currency and customer
ValidPayment(ev) ==
    /\ ev.hasCharge
    /\ ev.type = "charge.succeeded"
    /\ ev.currency # ""
    /\ ev.customer # ""

\* C1: out-of-order convergence. For an order whose one payment event was first
\* processed while the order was absent (and queued for retry) and whose order
\* record is stored afterwards: once no retry message for it is left to redeliver,
\* exactly one invoice carries the order as reference.
C1_OutOfOrderConvergence ==
    \A k \in OrderKeys :
        ( /\ hist.directFor[k] = 1
          /\ hist.missed[k]
          /\ k \in DOMAIN store
          /\ EnvelopesFor(k) = {} )
        => Cardinality(InvoicesFor(k)) = 1

\* C2: exactly-once emission. Whatever is delivered, and however often, at most one
\* invoice is ever created in Fiken with a given order as reference.
C2_AtMostOneInvoice ==
    \A k \in OrderKeys : Cardinality(InvoicesFor(k)) <= 1

\* C3: retry bound. A payment event delivered once, whose retry messages were each
\* delivered once and found the order absent MaxAttempts times, is not in the retry
\* queue any more.
C3_RetryBound ==
    \A e \in JoinableEvents :
        ( /\ hist.directFor[e.order_number] = 1
          /\ ~hist.duplicated
          /\ hist.retries[e] >= MaxAttempts )
        => \A m \in BagToSet(queue) : m.stripeEvent # e

\* the outcomes one processing performed: retry queued, invoice created, notified
OutcomeCount(rec) ==
    Cardinality(Effected(rec, "sqs.send"))
    + Cardinality(Effected(rec, "fiken.createInvoice"))
    + Cardinality(Effected(rec, "sns.publish"))

\* the errors that are failures of the store or of an external service
ServiceErrors == {"store", "sqs", "sns", "stripe", "fiken"}

SentFor(rec, k) ==
    { i \in Made(rec, "sqs.send") : rec.calls[i].arg.order_number = k }

LedgerOps ==
    { "stripe.getCustomer", "fiken.getContacts", "fiken.createContact",
      "fiken.createInvoice", "fiken.sendInvoice" }

\* the processing made no customer lookup and no Ledger call
NoLedgerCall(rec) == \A i \in DOMAIN rec.calls : rec.calls[i].op \notin LedgerOps

C9_AttemptCounter ==
    \A m \in BagToSet(queue) :
        /\ "attempt" \in DOMAIN m
        /\ m.attempt \in Nat \ {0}

\* C10: documented status on a miss. When the order is not found and the retry
\* message is sent, the handler answers 404.
C10_MissReturns404 ==
    \A rec \in LastRecs :
        (rec.orderAbsent /\ Made(rec, "sqs.send") # {}) => last.statusCode = 404

----------------------------------------------------------------------------
(* Claims about the order handler, under OrderSpec *)

\* the webhook types recorded for order k
TypesSeen(k) == IF k \in DOMAIN store THEN SeqToSet(store[k].webhook_types) ELSE {}

Count(x, seq) == Cardinality({ i \in DOMAIN seq : seq[i] = x })

\* C5: lost-update freedom. With no upsert of order k under way, its record lists
\* every tag an upsert of k completed with, however the upserts interleaved.
C5_NoLostUpdate ==
    \A k \in OrderKeys :
        InFlight(k) = {} => TypesSeen(k) = hist.delivered[k]

\* C6: union monotonicity. As long as no two upserts of order k overlapped, the
\* record lists exactly the tags of the upserts completed so far, and no step
\* removes a tag from it.
C6_UnionMonotonicity ==
    [][ \A k \in OrderKeys :
          ~hist.overlapped'[k] =>
             /\ TypesSeen(k)' = hist.delivered'[k]
             /\ TypesSeen(k) \subseteq TypesSeen(k)' ]_vars

\* three upserts of one order, one after the other, with three different tags
C6_Witness ==
    \E k \in OrderKeys :
        /\ ~hist.overlapped[k]
        /\ InFlight(k) = {}
        /\ Cardinality(hist.delivered[k]) = 3
        /\ TypesSeen(k) = hist.delivered[k]

\* the last invocation was a successful upsert that repeated, in sequence, the
\* items and the tag of the upsert of the same order before it
RepeatedUpsert ==
    /\ last.handler = "order"
    /\ last.statusCode = 200
    /\ last.order[1].writes = 1
    /\ last.order[1].prior # None
    /\ last.order[1].prior[1].items = last.order[1].items
    /\ last.order[1].prior[1].tag = last.order[1].webhook_type
    /\ ~hist.overlapped[last.order[1].key]
    /\ InFlight(last.order[1].key) = {}

\* C7: idempotent upsert. After the same upsert was done twice in sequence, the
\* record's items are those the first upsert stored and the tag is listed once.
C7_IdempotentUpsert ==
    RepeatedUpsert =>
        LET o == last.order[1] IN
        /\ store[o.key].items = o.prior[1].stored.items
        /\ Count(o.webhook_type, store[o.key].webhook_types) = 1

\* such a repeat happened, on a record that lists another tag as well
C7_Witness ==
    /\ RepeatedUpsert
    /\ Len(store[last.order[1].key].webhook_types) = 2

----------------------------------------------------------------------------
(* Claims about what the Stripe handler does with events it does not invoice *)

\* the processing called no service at all: no store access, no queue send, no
\* notification, no customer lookup, no Ledger call
NoCall(rec) == rec.calls = <<>>

\* the calls of a processing to service op, whatever their answer
Attempted(rec, op) == { i \in DOMAIN rec.calls : rec.calls[i].op = op }

\* C11: unsupported payment event types are ignored. Every processing of an event
\* whose type is not charge.succeeded, whatever its other fields, succeeds and
\* calls no service.
C11_UnsupportedTypeIgnored ==
    \A rec \in LastRecs :
        (rec.finished /\ rec.event.type # "charge.succeeded")
        => (rec.statusCode = 200 /\ NoCall(rec))

\* C12: missing join key goes to manual review. Every processing of a
\* charge.succeeded event with a currency and without metadata.order_number
\* dispatches exactly one notification and succeeds, with no store access, no
\* retry message and no Ledger call.
C12_MissingOrderNumberNotifies ==
    \A rec \in LastRecs :
        ( /\ rec.finished
          /\ rec.event.hasCharge
          /\ rec.event.type = "charge.succeeded"
          /\ rec.event.currency # ""
          /\ rec.event.order_number = "" )
        => /\ Cardinality(Attempted(rec, "sns.publish")) = 1
           /\ Len(rec.calls) = 1
           /\ rec.statusCode = 200

\* the client-error statuses
ClientErrors == { 400, 404, 422 }

\* C13: malformed payment payloads are rejected without side effect. Every
\* processing of a charge.succeeded event with no currency, or with no customer,
\* ends in a client-error status and calls no service.
C13_MalformedRejected ==
    \A rec \in LastRecs :
        ( /\ rec.finished
          /\ rec.event.hasCharge
          /\ rec.event.type = "charge.succeeded"
          /\ (rec.event.currency = "" \/ rec.event.customer = "") )
        => (rec.statusCode \in ClientErrors /\ NoCall(rec))

\* C17: notification failure never blows up. A processing whose notification
\* dispatch failed still ends in success.
C17_NotificationFailureIsSuccess ==
    \A rec \in LastRecs :
        ( /\ rec.finished
          /\ \E i \in Attempted(rec, "sns.publish") : rec.calls[i].result = "error" )
        => rec.statusCode = 200

----------------------------------------------------------------------------
(* Claims about the order handler's validation, under OrderSpec *)

\* the last finished invocation of the order handler, if it got a JSON body:
\* what it was given and did, with the status it answered
LastOrders ==
    IF last.handler = "order" /\ last.order[1].validJson
    THEN { last.order[1] @@ [statusCode |-> last.statusCode] }
    ELSE {}

AllowedType(o) == o.webhook_type \in SeqToSet(allowedWebhookTypes)

\* C14: order-source normalisation gates persistence. The order handler reads or
\* writes the table only for an allowed webhook_type with order.id present and
\* order.items an array; any other webhook_type gets 200 with no store access; an
\* allowed type without order.id or with non-array items gets 400 with no store
\* access. The table itself only holds records written that way.
C14_ValidationGatesStore ==
    /\ \A o \in LastOrders :
          /\ (o.reads + o.writes > 0) => (AllowedType(o) /\ o.hasId /\ o.itemsIsArray)
          /\ ~AllowedType(o) => (o.statusCode = 200 /\ o.reads + o.writes = 0)
          /\ (AllowedType(o) /\ (~o.hasId \/ ~o.itemsIsArray))
                => (o.statusCode = 400 /\ o.reads + o.writes = 0)
    /\ \A k \in DOMAIN store :
          /\ hist.delivered[k] # {}
          /\ SeqToSet(store[k].webhook_types) \subseteq SeqToSet(allowedWebhookTypes)

\* an allowed-type body with non-array items was answered 400 after an order had
\* been stored
C14_Witness ==
    /\ store # << >>
    /\ \E o \in LastOrders :
          AllowedType(o) /\ o.hasId /\ ~o.itemsIsArray /\ o.statusCode = 400

----------------------------------------------------------------------------
(* Claims about failures *)

\* the retry messages waiting in the queue that carry event ev
WaitingFor(ev) == { m \in BagToSet(queue) : m.stripeEvent = ev }

\* the lookup of a processing failed
LookupFailed(rec) ==
    \E i \in Attempted(rec, "ddb.get") : rec.calls[i].result = "error"

\* C15: store failures are surfaced, never dropped. An order upsert whose read
\* failed answers 500 and writes nothing; one whose write failed answers 500. A
\* payment processing whose lookup failed sends no retry message and makes no
\* Ledger call, and ends in a failure the transport can see: a direct invocation
\* is answered 500, and a message delivered by SQS is left in the queue for
\* redelivery.
C15_StoreFailureSurfaced ==
    /\ (last.handler = "order" /\ last.order[1].reads = 1 /\ last.order[1].key # "")
          => \/ last.statusCode = 500
             \/ (last.statusCode = 200 /\ last.order[1].writes = 1
                   /\ last.order[1].key \in DOMAIN store)
    /\ \A rec \in LastRecs :
          (rec.finished /\ LookupFailed(rec))
          => /\ rec.statusCode = 500
             /\ Attempted(rec, "sqs.send") = {}
             /\ NoLedgerCall(rec)
             /\ last.statusCode = 500
             /\ last.via = "sqs" => WaitingFor(rec.event) # {}

\* the calls a failure status came back from: the customer lookup or a Ledger call
FailedLedgerCalls(rec) ==
    { i \in DOMAIN rec.calls :
        rec.calls[i].op \in LedgerOps /\ rec.calls[i].result = "error" }

\* C16: external-service failures are fatal for the delivery and not retried. When
\* the customer lookup or a Ledger call returns a failure status, the processing
\* ends in a failure, the failed call is its last call, and it sends no retry
\* message.
C16_ExternalFailureFatal ==
    \A rec \in LastRecs :
        (rec.finished /\ FailedLedgerCalls(rec) # {})
        => /\ rec.statusCode = 500
           /\ last.statusCode = 500
           /\ FailedLedgerCalls(rec) = { Len(rec.calls) }
           /\ Attempted(rec, "sqs.send") = {}

\* the invoice creation failed after the contact had been created
C16_Witness ==
    \E rec \in LastRecs :
        /\ rec.finished
        /\ Made(rec, "fiken.createContact") # {}
        /\ \E i \in FailedLedgerCalls(rec) : rec.calls[i].op = "fiken.createInvoice"
        /\ invoices = <<>>

----------------------------------------------------------------------------
(* Claims about the invoicing *)

FikenOps ==
    { "fiken.getContacts", "fiken.createContact", "fiken.createInvoice",
      "fiken.sendInvoice" }

IsFikenCall(c) == c.op \in FikenOps

\* the Ledger calls of a processing, in the order they were made
FikenCalls(rec) == SelectSeq(rec.calls, IsFikenCall)

\* the Ledger calls of a complete invoicing; found: the customer has a contact
LedgerSequence(found) ==
    IF found
    THEN << "fiken.getContacts", "fiken.createInvoice", "fiken.sendInvoice" >>
    ELSE << "fiken.getContacts", "fiken.createContact", "fiken.createInvoice",
            "fiken.sendInvoice" >>

\* the processing found the order in the table
FoundOrder(rec) ==
    rec.finished /\ Made(rec, "ddb.get") # {} /\ ~rec.orderAbsent

\* the Ledger calls made are the first steps of the sequence, each step made only
\* after the one before it succeeded; success only after the whole sequence
OrderedLedgerCalls(rec, found) ==
    LET made == FikenCalls(rec)
        want == LedgerSequence(found)
    IN  /\ Len(made) <= Len(want)
        /\ \A i \in DOMAIN made :
              /\ made[i].op = want[i]
              /\ i < Len(made) => made[i].result = "ok"
        /\ rec.statusCode = 200 =>
              (Len(made) = Len(want) /\ made[Len(made)].result = "ok")

\* C19: Ledger call ordering. Every processing that finds the order calls
\* find-contact, then create-contact only if the customer had no contact, then
\* create-invoice, then send-invoice, each only after the call before it
\* succeeded, and succeeds only after send-invoice succeeded.
C19_LedgerCallOrdering ==
    [][ hist'.invocations # hist.invocations =>
          \A rec \in LastRecs' :
              FoundOrder(rec) =>
                  OrderedLedgerCalls(rec, rec.event.customer \in contacts) ]_vars

\* an invoicing that reused the contact an earlier invoicing had created
C19_Witness ==
    \E rec \in LastRecs :
        /\ FoundOrder(rec)
        /\ rec.statusCode = 200
        /\ Attempted(rec, "fiken.createContact") = {}
        /\ Made(rec, "fiken.sendInvoice") # {}
        /\ Len(invoices) = 2

----------------------------------------------------------------------------
(* Claims about the configuration, under ConfigSpec *)

\* C18: missing configuration stops all processing. With a required environment
\* variable not set, neither handler reads or writes the table, queues a retry,
\* publishes a notification or calls Stripe or Fiken. (A read that the table
\* service rejects is not counted as a read.)
C18_MissingConfigStopsProcessing ==
    config # ConfigVars =>
        /\ store = << >>
        /\ queue = EmptyBag
        /\ notified = 0
        /\ contacts = {} /\ invoices = <<>> /\ sent = {}
        /\ \A w \in Workers : ow[w].pc = "idle"
        /\ last.handler = "order" => last.order[1].writes = 0
        /\ \A rec \in LastRecs : NoCall(rec)

----------------------------------------------------------------------------
(* Claims about the invoice payload, under InvoiceSpec *)

\* a decimal price times 100, exactly
Cents(price) ==
    CASE price = "9.99" -> "999"
      [] price = "19.99" -> "1999"

\* the invoices the last processing created, each with the record it was built from
InvoicesBuilt ==
    UNION { { [payload |-> rec.calls[i].arg, record |-> store[rec.event.order_number]] :
                i \in Effected(rec, "fiken.createInvoice") } :
            rec \in { r \in LastRecs : FoundOrder(r) } }

\* C20: invoice lines are a function of the stored items and the locale flag only.
\* An invoice has one line per stored item, in the stored order, with the item's
\* quantity, a unit price of exactly 100 times the stored unit price, and the
\* domestic codes when the customer is Norwegian, the export codes otherwise; its
\* reference is the order id.
C20_InvoiceLinesExact ==
    \A b \in InvoicesBuilt :
        LET lines == b.payload.lines
            items == b.record.items
        IN  /\ Len(lines) = Len(items)
            /\ \A j \in DOMAIN lines :
                  /\ lines[j].productName = items[j].name
                  /\ lines[j].quantity = items[j].quantity
                  /\ lines[j].unitPrice = Cents(items[j].unit_price)
                  /\ lines[j].vatType =
                        IF b.payload.norwegianText THEN "HIGH" ELSE "EXEMPT_IMPORT_EXPORT"
                  /\ lines[j].incomeAccount =
                        IF b.payload.norwegianText THEN 3010 ELSE 3110
            /\ b.payload.yourReference = b.record.order_id

----------------------------------------------------------------------------
(* Claims about conflicting upserts, under OrderSpec *)

\* the last invocation wrote order o.key, in sequence after an upsert of the same
\* order that had stored other items
ConflictingUpsert ==
    /\ last.handler = "order"
    /\ last.order[1].writes = 1
    /\ last.order[1].prior # None
    /\ last.order[1].prior[1].items # last.order[1].items
    /\ ~hist.overlapped[last.order[1].key]

\* C21: last-write-wins on conflict. An upsert of an existing order with items
\* that differ from the stored ones succeeds, the stored items become the incoming
\* items, and the incoming tag is added to the tags recorded before, which are kept.
C21_LastWriteWins ==
    ConflictingUpsert =>
        LET o == last.order[1]
            before == o.prior[1].stored
            after == store[o.key]
        IN  /\ last.statusCode = 200
            /\ after.items = o.items
            /\ after.items # before.items
            /\ SeqToSet(after.webhook_types) =
                  SeqToSet(before.webhook_types) \cup {o.webhook_type}
            /\ SubSeq(after.webhook_types, 1, Len(before.webhook_types)) =
                  before.webhook_types

\* a conflicting upsert that brought a new tag as well
C21_Witness ==
    /\ ConflictingUpsert
    /\ last.order[1].prior[1].tag # last.order[1].webhook_type
    /\ Len(store[last.order[1].key].webhook_types) = 2

----------------------------------------------------------------------------
(* Claims about what the Stripe handler leaves alone *)

\* the step completes an upsert of the order handler
UpsertStep == \E w \in Workers : ow[w].pc = "put" /\ ow'[w].pc = "idle"

\* C22: payment processing leaves the table unchanged. No invocation of the Stripe
\* handler, direct or with SQS records, whatever its outcome, changes the table;
\* the table changes only when an upsert of the order handler completes, and no
\* record is ever removed.
C22_PaymentLeavesStoreUnchanged ==
    [][ /\ hist'.invocations # hist.invocations => store' = store
        /\ store' # store => UpsertStep
        /\ DOMAIN store \subseteq DOMAIN store' ]_vars

\* with the order stored, a payment was invoiced and a redelivered retry message
\* was processed as well
C22_Witness ==
    /\ store # << >>
    /\ invoices # <<>>
    /\ last.handler = "stripe" /\ last.via = "sqs"
    /\ \E rec \in LastRecs : FoundOrder(rec)

----------------------------------------------------------------------------
(* Claims about batches of SQS records, under BatchSpec *)

\* C23: independence of batched records. When the handler is given two records,
\* each is processed to its end as if alone, the outcome reported is its own
\* outcome, and a record whose processing failed is not taken off the queue as
\* handled.
C23_BatchIndependence ==
    (last.handler = "stripe" /\ last.via = "sqs" /\ Len(last.recs) = 2) =>
        \A i \in DOMAIN last.recs :
            LET rec == last.recs[i] IN
            /\ rec.finished
            /\ last.statusCode = rec.statusCode
            /\ rec.statusCode = 500 => WaitingFor(rec.event) # {}

====
